---- MODULE Spec2Model ----
(***************************************************************************)
(* A model of phasefolder/phasefolder.py: the period search (find_period,  *)
(* redef), the residual objective (calc_residual_stdev) and the notebook   *)
(* widget handlers (notebook_interact).                                    *)
(*                                                                         *)
(* Periods are exact dyadic rationals.  One "unit" is 0.0001 day and one   *)
(* unit is Tick ticks, Tick a power of two, so that every halving the      *)
(* refinement loop performs is exact.  The floating-point rounding of the  *)
(* Python floats is not modelled.                                          *)
(*                                                                         *)
(* The objective calc_residual_stdev(lc, per) is, for a fixed light curve, *)
(* an unknown function of the period.  Its values are drawn from Scores,   *)
(* one per period, the first time the period is evaluated.                 *)
(***************************************************************************)
EXTENDS Integers, FiniteSets, Sequences, TLC

\* ------------------------------------------------------------ bounds

\* Number of distinct objective values; an objective value is 0..NumScores-1.
NumScores == 9

Scores == 0 .. (NumScores - 1)

RECURSIVE Pow2(_)
Pow2(n) == IF n <= 0 THEN 1 ELSE 2 * Pow2(n - 1)

\* Each update of the loop moves to a strictly smaller score, so a run makes
\* fewer than NumScores halvings: NumScores fractional bits keep them exact.
FracBits == NumScores

\* ticks per unit of 0.0001 day
Tick == Pow2(FracBits)

\* ------------------------------------------------------------ constants

\* 0.0001 day (line 63), in units
TolUnits == 1

\* 0.042 day (line 60), in units
MinPerUnits == 420

\* 15 days (line 61), in units
MaxPerUnits == 150000

Tol == TolUnits * Tick

MinPer == MinPerUnits * Tick

MaxPer == MaxPerUnits * Tick

\* midpt_rsd before the loop body has ever run: the local is unbound
Unbound == -1

\* The periodogram's period_at_max_power, in thousandths of a day.
GuessesMilli == {30, 33, 42, 1000, 12000, 16000, 22000}

\* a guess in ticks
Ticks(g) == g * 10 * Tick

Max2(a, b) == IF a >= b THEN a ELSE b

Min2(a, b) == IF a <= b THEN a ELSE b

\* .7*period.value and 1.3*period.value: exact, p is a multiple of 10 units
Times07(p) == 7 * (p \div 10)

Times13(p) == 13 * (p \div 10)

\* (a + b)/2
Mid(a, b) == (a + b) \div 2

VARIABLES
    pc,         \* position in redef
    lc_ok,      \* whether the objective is defined on the clean curve
    period,     \* period.value, the first guess
    mini, midpt, maxi,
    min_rsd, midpt_rsd, max_rsd,
    rsd,        \* the objective at the periods of the latest evaluation step
    evaluated,  \* every period the objective was evaluated at
    iters,      \* bracket updates made so far
    cr_n,       \* calc_residual_stdev: len(cleanlightcurve)
    cr_per,     \* calc_residual_stdev: per, in days
    cr_ressqr,  \* calc_residual_stdev: ressqr
    cr_out,     \* calc_residual_stdev: how the call ended
    ui_a,       \* notebook_interact: a.value, the index
    ui_b,       \* notebook_interact: b.value, the period
    ui_c,       \* notebook_interact: c.value, the epoch time
    ui_files,   \* files written by on_save_clicked
    ui_err,     \* the error the latest handler ended in
    ui_last,    \* the latest widget event
    ui_events   \* widget events handled so far

redefVars == <<pc, lc_ok, period, mini, midpt, maxi, min_rsd, midpt_rsd,
               max_rsd, rsd, evaluated, iters>>

calcVars == <<cr_n, cr_per, cr_ressqr, cr_out>>

uiVars == <<ui_a, ui_b, ui_c, ui_files, ui_err, ui_last, ui_events>>

vars == <<redefVars, calcVars, uiVars>>

\* the variables of a part of the program that is not running
RedefIdle ==
    /\ pc = "idle"
    /\ lc_ok = TRUE
    /\ period = 0 /\ mini = 0 /\ midpt = 0 /\ maxi = 0
    /\ min_rsd = Unbound /\ midpt_rsd = Unbound /\ max_rsd = Unbound
    /\ rsd = <<>>
    /\ evaluated = {}
    /\ iters = 0

CalcIdle ==
    /\ cr_n = 0 /\ cr_per = 0 /\ cr_ressqr = 0 /\ cr_out = "idle"

UiIdle ==
    /\ ui_a = 0 /\ ui_b = 0 /\ ui_c = 0
    /\ ui_files = {}
    /\ ui_err = "idle"
    /\ ui_last = "idle"
    /\ ui_events = 0

\* ------------------------------------------------------------ redef

\* lines 59-61
InitMini(p) == Max2(Times07(p), MinPer)

InitMaxi(p) == Min2(Times13(p), MaxPer)

Init ==
    /\ pc = "while"
    /\ lc_ok \in BOOLEAN
    /\ period \in {Ticks(g) : g \in GuessesMilli}
    /\ midpt = period
    /\ mini = InitMini(period)
    /\ maxi = InitMaxi(period)
    /\ min_rsd = Unbound
    /\ midpt_rsd = Unbound
    /\ max_rsd = Unbound
    /\ rsd = <<>>
    /\ evaluated = {}
    /\ iters = 0
    /\ CalcIdle
    /\ UiIdle

\* the test of line 63 with twice the tolerance
LoopGuardWide == mini + 2 * Tol < maxi

\* line 63
LoopGuard == mini + Tol < maxi

\* The objective at the periods of `pts`: a value of `S` for each, the
\* same value as before at a period the latest step evaluated.
Evals(pts, S) ==
    {f \in [pts -> S] :
        \A q \in pts \cap DOMAIN rsd : f[q] = rsd[q]}

\* Lines 83 and 86 only compare the objective with midpt_rsd: the values
\* just below it, equal to it and just above it cover every outcome.
Around(s) == {s - 1, s, s + 1} \cap Scores

\* line 72
Converged(lo, m, hi) == Min2(m, Min2(lo, hi)) = m

\* line 75 with <= for <
GoDownOnTie(lo, hi) == lo <= hi

\* line 75
GoDown(lo, hi) == lo < hi

\* line 76 left out
DownMaxiKept == maxi

\* lines 76-77
DownMaxi == midpt

DownMidpt == Mid(mini, midpt)

\* lines 80-81
UpMini == midpt

UpMidpt == Mid(midpt, maxi)

\* lines 63-81, one iteration of the loop on a curve the objective accepts
LoopBody ==
    /\ pc = "while"
    /\ LoopGuard
    /\ lc_ok
    /\ \E f \in Evals({Mid(mini, midpt), midpt, Mid(maxi, midpt)}, Scores) :
        /\ rsd' = f
        /\ min_rsd' = f[Mid(mini, midpt)]
        /\ midpt_rsd' = f[midpt]
        /\ max_rsd' = f[Mid(maxi, midpt)]
        /\ evaluated' = evaluated \cup DOMAIN f
        /\ IF Converged(f[Mid(mini, midpt)], f[midpt], f[Mid(maxi, midpt)])
           THEN /\ pc' = "ambig"
                /\ UNCHANGED <<mini, midpt, maxi, iters>>
           ELSE /\ pc' = "while"
                /\ iters' = iters + 1
                /\ IF GoDown(f[Mid(mini, midpt)], f[Mid(maxi, midpt)])
                   THEN /\ maxi' = DownMaxi
                        /\ midpt' = DownMidpt
                        /\ mini' = mini
                   ELSE /\ mini' = UpMini
                        /\ midpt' = UpMidpt
                        /\ maxi' = maxi
    /\ UNCHANGED <<lc_ok, period, calcVars, uiVars>>

\* line 68 on a curve the objective rejects: the error leaves redef
LoopRaise ==
    /\ pc = "while"
    /\ LoopGuard
    /\ ~lc_ok
    /\ pc' = "raised"
    /\ UNCHANGED <<lc_ok, period, mini, midpt, maxi, min_rsd, midpt_rsd,
                   max_rsd, rsd, evaluated, iters, calcVars, uiVars>>

\* line 63 false: fall through to line 83
LoopExit ==
    /\ pc = "while"
    /\ ~LoopGuard
    /\ pc' = "ambig"
    /\ UNCHANGED <<lc_ok, period, mini, midpt, maxi, min_rsd, midpt_rsd,
                   max_rsd, rsd, evaluated, iters, calcVars, uiVars>>

\* lines 83-87 with the halved period tried first
CorrectedHalfFirst(c, s, d, h) ==
    IF h < s THEN c \div 2
    ELSE IF d < s THEN 2 * c
    ELSE c

\* lines 83-87: the period returned for candidate c with score s, the
\* objective being d at 2*c and h at c/2
Corrected(c, s, d, h) ==
    IF d < s THEN 2 * c
    ELSE IF h < s THEN c \div 2
    ELSE c

\* lines 83-89
Ambig ==
    /\ pc = "ambig"
    /\ lc_ok
    /\ midpt_rsd # Unbound
    /\ \E g \in Evals({2 * midpt, midpt \div 2}, Around(midpt_rsd)) :
        /\ rsd' = g @@ rsd
        /\ evaluated' = evaluated \cup DOMAIN g
        /\ midpt' = Corrected(midpt, midpt_rsd, g[2 * midpt], g[midpt \div 2])
    /\ pc' = "done"
    /\ UNCHANGED <<lc_ok, period, mini, maxi, min_rsd, midpt_rsd, max_rsd,
                   iters, calcVars, uiVars>>

\* line 83, the call raises before midpt_rsd is read
AmbigRaise ==
    /\ pc = "ambig"
    /\ ~lc_ok
    /\ pc' = "raised"
    /\ UNCHANGED <<lc_ok, period, mini, midpt, maxi, min_rsd, midpt_rsd,
                   max_rsd, rsd, evaluated, iters, calcVars, uiVars>>

\* line 83, midpt_rsd was never assigned: UnboundLocalError
AmbigUnbound ==
    /\ pc = "ambig"
    /\ lc_ok
    /\ midpt_rsd = Unbound
    /\ pc' = "unbound"
    /\ evaluated' = evaluated \cup {2 * midpt}
    /\ UNCHANGED <<lc_ok, period, mini, midpt, maxi, min_rsd, midpt_rsd,
                   max_rsd, rsd, iters, calcVars, uiVars>>

Next ==
    \/ LoopBody
    \/ LoopRaise
    \/ LoopExit
    \/ Ambig
    \/ AmbigRaise
    \/ AmbigUnbound

Spec == Init /\ [][Next]_vars

\* ------------------------------------------------------------ calc_residual_stdev

\* largest len(cleanlightcurve) tried
MaxN == 5

\* largest ressqr tried
MaxRessqr == 3

\* candidate periods in days: negative, zero and positive
CalcPeriods == -1 .. 2

\* Line 101, math.sqrt((ressqr)/(n-2)).  n = 2 divides by zero: a
\* ZeroDivisionError on Python numbers, inf or nan and no error on numpy or
\* astropy ones.  n < 2 makes the quotient negative when ressqr > 0, and
\* math.sqrt raises ValueError; when ressqr = 0 the quotient is -0.0 and
\* math.sqrt returns it.
SqrtOutcomes(n, ressqr) ==
    IF n = 2 THEN {"ZeroDivisionError", "return"}
    ELSE IF n < 2 /\ ressqr > 0 THEN {"ValueError"}
    ELSE {"return"}

\* Lines 92-102.  per is handed to fold (line 96) and tested nowhere.
CalcOutcomes(n, per, ressqr) == SqrtOutcomes(n, ressqr)

InitCalc ==
    /\ RedefIdle
    /\ UiIdle
    /\ cr_n \in 1 .. MaxN
    /\ cr_per \in CalcPeriods
    /\ cr_ressqr \in 0 .. MaxRessqr
    /\ cr_out = "called"

calc_residual_stdev ==
    /\ cr_out = "called"
    /\ cr_out' \in CalcOutcomes(cr_n, cr_per, cr_ressqr)
    /\ UNCHANGED <<cr_n, cr_per, cr_ressqr, redefVars, uiVars>>

NextCalc == calc_residual_stdev

SpecCalc == InitCalc /\ [][NextCalc]_vars

\* ------------------------------------------------------------ notebook_interact

\* len(lcc); the label of lcc[i] is i
NumCurves == 2

\* widget events in one run
MaxEvents == 3

\* ticks per 0.1 day of the period widget: MaxEvents halvings stay exact
UiTick == Pow2(MaxEvents)

\* b: min=0.1 (line 133), in tenths of a day
BMinTenths == 1

\* b: BoundedFloatText's max when none is given (line 131), in tenths of a day
BMaxTenths == 1000

BMin == BMinTenths * UiTick

BMax == BMaxTenths * UiTick

\* what find_period returns, and what the user types, in tenths of a day
PeriodsTenths == {0, 3, 50, 2000}

\* c: the times of lcc[0] (lines 164-168)
EpochTimes == 0 .. 1

\* a BoundedFloatText keeps its value within [min, max]
ClampB(v) == Max2(BMin, Min2(BMax, v))

\* the factor attribute of the three buttons (lines 146, 154, 162)
Factors == {"half", "double", "triple"}

\* line 211
Scaled(fac, b) ==
    IF fac = "half" THEN b \div 2
    ELSE IF fac = "double" THEN 2 * b
    ELSE 3 * b

\* The names on_save_clicked can read: its locals, the locals of
\* notebook_interact, the globals of the module.
SaveScope ==
    {"button", "label", "fig", "folded_lc",
     "lcc", "method", "a", "b", "c", "half_button", "double_button",
     "triple_button", "time_min", "save", "f", "update_best_guess",
     "factor_button", "on_save_clicked", "factors", "out",
     "interactive", "widgets", "plt", "medfilt", "math", "pd", "os", "lk",
     "find_period", "redef", "calc_residual_stdev", "csv_to_lc",
     "example_lcc", "notebook_interact"}

\* a file written over any file of the same name
Written(files, label, ext, index, per) ==
    {x \in files : ~(x.label = label /\ x.ext = ext)}
        \cup {[label |-> label, ext |-> ext, index |-> index, period |-> per]}

\* lines 118-238: the widgets as displayed, update_best_guess having run
InitUi ==
    /\ RedefIdle
    /\ CalcIdle
    /\ ui_a = 0
    /\ ui_b \in {ClampB(v * UiTick) : v \in PeriodsTenths}
    /\ ui_c \in EpochTimes
    /\ ui_files = {}
    /\ ui_err = "none"
    /\ ui_last = "display"
    /\ ui_events = 0

\* the user changes the index: update_best_guess (lines 197-205)
IndexChanged ==
    /\ ui_events < MaxEvents
    /\ \E i \in (0 .. (NumCurves - 1)) \ {ui_a} :
        /\ ui_a' = i
        /\ \/ \E v \in PeriodsTenths :
                /\ ui_b' = ClampB(v * UiTick)
                /\ ui_err' = "none"
           \/ /\ ui_b' = ui_b
              /\ ui_err' = "find_period"
    /\ ui_last' = "index"
    /\ ui_events' = ui_events + 1
    /\ UNCHANGED <<ui_c, ui_files, redefVars, calcVars>>

\* the user edits the period
PeriodEdited ==
    /\ ui_events < MaxEvents
    /\ \E v \in PeriodsTenths : ui_b' = ClampB(v * UiTick)
    /\ ui_err' = "none"
    /\ ui_last' = "period"
    /\ ui_events' = ui_events + 1
    /\ UNCHANGED <<ui_a, ui_c, ui_files, redefVars, calcVars>>

\* factor_button (lines 208-211)
factor_button ==
    /\ ui_events < MaxEvents
    /\ \E fac \in Factors : ui_b' = ClampB(Scaled(fac, ui_b))
    /\ ui_err' = "none"
    /\ ui_last' = "factor"
    /\ ui_events' = ui_events + 1
    /\ UNCHANGED <<ui_a, ui_c, ui_files, redefVars, calcVars>>

\* the user edits the epoch time
EpochEdited ==
    /\ ui_events < MaxEvents
    /\ \E t \in EpochTimes : ui_c' = t
    /\ ui_err' = "none"
    /\ ui_last' = "epoch"
    /\ ui_events' = ui_events + 1
    /\ UNCHANGED <<ui_a, ui_b, ui_files, redefVars, calcVars>>

\* on_save_clicked (lines 214-221): the plot is saved, then line 220 reads lc
on_save_clicked ==
    /\ ui_events < MaxEvents
    /\ IF "lc" \in SaveScope
       THEN /\ ui_files' = Written(Written(ui_files, ui_a, "png", ui_a, ui_b),
                                   ui_a, "csv", ui_a, ui_b)
            /\ ui_err' = "none"
       ELSE /\ ui_files' = Written(ui_files, ui_a, "png", ui_a, ui_b)
            /\ ui_err' = "NameError"
    /\ ui_last' = "save"
    /\ ui_events' = ui_events + 1
    /\ UNCHANGED <<ui_a, ui_b, ui_c, redefVars, calcVars>>

NextUi ==
    \/ IndexChanged
    \/ PeriodEdited
    \/ factor_button
    \/ EpochEdited
    \/ on_save_clicked

SpecUi == InitUi /\ [][NextUi]_vars

\* ------------------------------------------------------------ claims

\* the loop of redef has been left, and its body ran at least once
LoopLeft == pc = "ambig" /\ midpt_rsd # Unbound

\* the three scores of the latest iteration call for a bracket update
Moved == ~(midpt_rsd <= min_rsd /\ midpt_rsd <= max_rsd)

\* C1: when the loop has ended, the score line 83 compares with (midpt_rsd)
\* is the objective at the midpt the loop ended on.
C1_CandidateScoreOfFinalMidpt ==
    LoopLeft => (midpt \in DOMAIN rsd /\ midpt_rsd = rsd[midpt])

\* C2: for candidate c with candidate score s the period returned is 2c when
\* the objective at 2c is below s, else c/2 when the objective at c/2 is
\* below s, else c; it is always one of c, 2c, c/2.
C2_AmbiguityRule ==
    [][(pc = "ambig" /\ pc' = "done") =>
        LET c == midpt
            s == midpt_rsd
            d == rsd'[2 * c]
            h == rsd'[c \div 2]
        IN  /\ d < s => midpt' = 2 * c
            /\ (d >= s /\ h < s) => midpt' = c \div 2
            /\ (d >= s /\ h >= s) => midpt' = c
            /\ midpt' \in {c, 2 * c, c \div 2}]_vars

\* C2: both 2c and c/2 beat the candidate score and the doubled period won
C2_Witness ==
    /\ pc = "done"
    /\ \E c \in DOMAIN rsd :
        /\ 2 * c \in DOMAIN rsd
        /\ c \div 2 \in DOMAIN rsd
        /\ rsd[2 * c] < midpt_rsd
        /\ rsd[c \div 2] < midpt_rsd
        /\ midpt = 2 * c

\* the distance between the lowest and the highest of mini, midpt, maxi
\* as lines 59-61 set them
Span0 ==
    Max2(InitMaxi(period), period) - Min2(InitMini(period), period)

\* C3: the loop cannot go on unboundedly: it starts another iteration after
\* k >= 1 bracket updates only while 0.0001 * 2^(k-1) is below the initial
\* span, so it makes at most 1 + log2(span / 0.0001) updates whatever the
\* objective is.
C3_BoundedIterations ==
    (pc = "while" /\ mini + Tol < maxi /\ iters >= 1) =>
        Tol * Pow2(iters - 1) < Span0

\* C3: the loop ran until the bracket was no wider than 0.0001
C3_Witness ==
    /\ pc = "ambig"
    /\ iters >= 8
    /\ mini < maxi
    /\ maxi - mini <= Tol

\* C4 as stated: the loop is left with maxi - mini < 0.0001
C4_ExitsNarrow ==
    LoopLeft => maxi - mini < Tol

\* C4 amended: the loop is left either by the break of line 73, the score of
\* midpt being the least of the three, or by the test of line 63 with
\* maxi - mini <= 0.0001
C4_ExitsNarrowOrConverged ==
    pc = "ambig" => (maxi - mini <= Tol \/ (midpt_rsd # Unbound /\ ~Moved))

\* C4: the loop was left by the test of line 63 after an update
C4_Witness ==
    /\ LoopLeft
    /\ Moved
    /\ mini < maxi
    /\ maxi - mini <= Tol

\* C5: on a curve the objective accepts redef returns a positive period; the
\* candidate score line 83 reads is always defined.
C5_ReturnsPositivePeriod ==
    lc_ok =>
        /\ pc # "unbound"
        /\ pc = "ambig" => midpt_rsd # Unbound
        /\ pc = "done" => midpt > 0

\* the periods the loop has evaluated and, once it has ended, its midpt
LoopCandidates ==
    IF pc = "while" THEN evaluated
    ELSE IF pc = "ambig" THEN evaluated \cup {midpt}
    ELSE {}

\* C6: every period the loop evaluates, and the midpt it ends on, lies in
\* the bracket of lines 60-61.
C6_CandidatesInsideBracket ==
    \A q \in LoopCandidates : InitMini(period) <= q /\ q <= InitMaxi(period)

\* C7: calc_residual_stdev ends in an error when N <= 2 or per <= 0, and
\* returns a score for N = 3 and per > 0.
C7_DomainErrors ==
    cr_out \notin {"idle", "called"} =>
        /\ (cr_n <= 2 \/ cr_per <= 0) => cr_out # "return"
        /\ (cr_n = 3 /\ cr_per > 0) => cr_out = "return"

\* C8: one iteration with lo, m, hi the objective at (mini+midpt)/2, midpt,
\* (maxi+midpt)/2: m least (ties included) leaves the loop with the bracket
\* unchanged; else lo < hi moves maxi to midpt and midpt to (mini+midpt)/2;
\* else mini moves to midpt and midpt to (midpt+maxi)/2.
C8_OneIteration ==
    [][(pc = "while" /\ mini + Tol < maxi /\ lc_ok) =>
        LET lo == min_rsd'
            m == midpt_rsd'
            hi == max_rsd'
        IN  /\ lo = rsd'[(mini + midpt) \div 2]
            /\ m = rsd'[midpt]
            /\ hi = rsd'[(maxi + midpt) \div 2]
            /\ (m <= lo /\ m <= hi) =>
                /\ pc' = "ambig"
                /\ mini' = mini /\ midpt' = midpt /\ maxi' = maxi
            /\ (~(m <= lo /\ m <= hi) /\ lo < hi) =>
                /\ pc' = "while"
                /\ maxi' = midpt
                /\ midpt' = (mini + midpt) \div 2
                /\ mini' = mini
            /\ (~(m <= lo /\ m <= hi) /\ hi <= lo) =>
                /\ pc' = "while"
                /\ mini' = midpt
                /\ midpt' = (midpt + maxi) \div 2
                /\ maxi' = maxi]_vars

\* C8: the first iteration found lo = hi below m and moved the bracket up
C8_Witness ==
    /\ pc = "while"
    /\ iters = 1
    /\ min_rsd = max_rsd
    /\ min_rsd < midpt_rsd
    /\ mini = period
    /\ midpt = (period + InitMaxi(period)) \div 2
    /\ maxi = InitMaxi(period)

\* C9: mini < maxi when the bracket is set and after every update, and every
\* update makes maxi - mini smaller.
C9_OrderedAndNarrowing ==
    [][pc = "while" =>
        /\ mini < maxi
        /\ pc' = "while" =>
            /\ mini' < maxi'
            /\ maxi' - mini' < maxi - mini]_vars

\* the files of the selected curve at the displayed period
SavedFile(ext) ==
    [label |-> ui_a, ext |-> ext, index |-> ui_a, period |-> ui_b]

\* C10: a click on Save ends without error and leaves <label>.png and
\* <label>.csv of the selected curve folded at the displayed period.
C10_SaveWritesBoth ==
    ui_last = "save" =>
        /\ ui_err = "none"
        /\ SavedFile("png") \in ui_files
        /\ SavedFile("csv") \in ui_files

\* ------------------------------------------------------------ model lemmas

\* every halving is exact
ExactHalves ==
    /\ pc = "while" /\ LoopGuard =>
        /\ (mini + midpt) % 2 = 0
        /\ (maxi + midpt) % 2 = 0
    /\ pc = "ambig" => midpt % 2 = 0

\* a period the objective is evaluated at again is one of the latest step
CacheSound ==
    /\ pc = "while" /\ LoopGuard =>
        \A q \in {Mid(mini, midpt), midpt, Mid(maxi, midpt)} :
            q \in evaluated => q \in DOMAIN rsd
    /\ pc = "ambig" =>
        \A q \in {2 * midpt, midpt \div 2} :
            q \in evaluated => q \in DOMAIN rsd

====
